---- MODULE Spec2Model ----
(***************************************************************************)
(* A model of ph_gh_component_io: the input-cleaning functions of          *)
(* input_tools.py (input_to_int, clean_get, cleaner_get, memoize) and the  *)
(* validator descriptors of validators.py (Validated.__set__/__get__ and   *)
(* the validate methods of its subclasses).                                *)
(*                                                                         *)
(* Python values are records [t, n, s]: t is the Python type name, n the   *)
(* numeric payload, s the character payload (a sequence of one-character   *)
(* strings).  A float's n counts millionths (FloatScale), so 0.5 is        *)
(* 500000; binary rounding of floats is not modelled.                      *)
(***************************************************************************)
EXTENDS Integers, Sequences, FiniteSets, TLC

VARIABLES
    call,       \* the operation last applied, with its arguments
    out,        \* its outcome: a returned value or a raised exception
    cls,        \* the validator class of the descriptor under study
    default,    \* the descriptor's configured default (self.default)
    idict,      \* instance.__dict__ at storage_name: Missing or a value
    extcalls,   \* the calls the last validate made to the external libraries
    before,     \* history: instance.__dict__ at storage_name before the call
    lastValid,  \* history: what the last validate that returned, returned
    sticky,     \* the host's sticky dict: positional arguments -> value
    calls,      \* history: calls of each wrapper
    invoked,    \* history: runs of each wrapped function, per key
    firstRet    \* history: what each wrapped function first returned, per key

validatorVars == <<cls, default, idict, extcalls, before, lastValid>>
memoVars == <<sticky, calls, invoked, firstRet>>
vars == <<call, out, validatorVars, memoVars>>

----------------------------------------------------------------------------
(* Bounds of the model *)

MaxStrLen == 3      \* longest input string
MaxInt == 12        \* largest magnitude of an integer input
MaxListLen == 3     \* longest list handed to clean_get / cleaner_get
MaxCalls == 3       \* calls of the memoized wrappers in one run

----------------------------------------------------------------------------
(* Python values *)

V(t, n, s) == [t |-> t, n |-> n, s |-> s]

PyNone == V("NoneType", 0, <<>>)
PyInt(n) == V("int", n, <<>>)
PyBool(b) == V("bool", IF b THEN 1 ELSE 0, <<>>)
PyStr(s) == V("str", 0, s)
PyList(s) == V("list", 0, s)        \* a list of one-character strings

FloatScale == 1000 * 1000       \* a float counts millionths
PyFloat(micro) == V("float", micro, <<>>)
PyNaN == V("float", 0, <<"n", "a", "n">>)
IsNaN(v) == v.t = "float" /\ v.s # <<>>

\* the marker of a key a dict does not hold (the lookup raises KeyError)
Missing == V("<missing>", 0, <<>>)

\* bool(v): the truth value `not _input_value` tests
Truthy(v) ==
    CASE v.t = "NoneType" -> FALSE
      [] v.t = "bool" -> v.n = 1
      [] v.t = "int" -> v.n # 0
      [] v.t = "float" -> IsNaN(v) \/ v.n # 0
      [] v.t = "str" -> v.s # <<>>
      [] v.t = "list" -> v.s # <<>>
      [] OTHER -> TRUE

\* outcomes of a call
Ret(v) == [kind |-> "return", val |-> v, exc |-> "", msg |-> "", about |-> PyNone]
Raise(e, m, v) == [kind |-> "raise", val |-> PyNone, exc |-> e, msg |-> m, about |-> v]
NoOut == [kind |-> "none", val |-> PyNone, exc |-> "", msg |-> "", about |-> PyNone]

----------------------------------------------------------------------------
(* Characters and str() *)

Digits == <<"0", "1", "2", "3", "4", "5", "6", "7", "8", "9">>
IsDigit(c) == \E k \in 1..10 : Digits[k] = c
DigitVal(c) == (CHOOSE k \in 1..10 : Digits[k] = c) - 1

RECURSIVE NatStr(_)
NatStr(n) == IF n < 10 THEN <<Digits[n + 1]>>
             ELSE NatStr(n \div 10) \o <<Digits[(n % 10) + 1]>>

IntStr(n) == IF n < 0 THEN <<"-">> \o NatStr(-n) ELSE NatStr(n)

\* n in decimal, w digits wide
RECURSIVE Padded(_, _)
Padded(n, w) ==
    IF w = 0 THEN <<>> ELSE Padded(n \div 10, w - 1) \o <<Digits[(n % 10) + 1]>>

RECURSIVE DropTrailingZeros(_)
DropTrailingZeros(s) ==
    IF Len(s) > 1 /\ s[Len(s)] = "0"
    THEN DropTrailingZeros(SubSeq(s, 1, Len(s) - 1)) ELSE s

\* the six fractional digits of a float, trailing zeros dropped, one kept
FracStr(frac) == DropTrailingZeros(Padded(frac, 6))

Abs(n) == IF n < 0 THEN -n ELSE n

RECURSIVE Pow10(_)
Pow10(k) == IF k = 0 THEN 1 ELSE 10 * Pow10(k - 1)

\* str() of a float in positional notation (magnitudes from 0.0001 up, and 0.0)
FloatStr(v) ==
    IF IsNaN(v) THEN v.s
    ELSE (IF v.n < 0 THEN <<"-">> ELSE <<>>)
         \o NatStr(Abs(v.n) \div FloatScale) \o <<".">>
         \o FracStr(Abs(v.n) % FloatScale)

RECURSIVE ListBody(_)
ListBody(s) ==
    IF s = <<>> THEN <<>>
    ELSE <<"'", Head(s), "'">>
         \o (IF Tail(s) = <<>> THEN <<>> ELSE <<",", " ">> \o ListBody(Tail(s)))

\* str(v)
Str(v) ==
    CASE v.t = "NoneType" -> <<"N", "o", "n", "e">>
      [] v.t = "bool" -> IF v.n = 1 THEN <<"T", "r", "u", "e">>
                         ELSE <<"F", "a", "l", "s", "e">>
      [] v.t = "int" -> IntStr(v.n)
      [] v.t = "float" -> FloatStr(v)
      [] v.t = "str" -> v.s
      [] v.t = "list" -> <<"[">> \o ListBody(v.s) \o <<"]">>

----------------------------------------------------------------------------
(* input_tools.input_to_int *)

\* a search for r"\d" instead of r"\d+": only the first digit is matched
ReSearchDigits_OneDigit(s) ==
    IF \A k \in 1..Len(s) : ~IsDigit(s[k]) THEN <<>>
    ELSE LET i == CHOOSE k \in 1..Len(s) :
                      IsDigit(s[k]) /\ \A m \in 1..(k - 1) : ~IsDigit(s[m])
         IN SubSeq(s, i, i)

\* re.search(r"\d+", s): the leftmost match, greedy; <<>> stands for no match
ReSearchDigits(s) ==
    IF \A k \in 1..Len(s) : ~IsDigit(s[k]) THEN <<>>
    ELSE LET i == CHOOSE k \in 1..Len(s) :
                      IsDigit(s[k]) /\ \A m \in 1..(k - 1) : ~IsDigit(s[m])
             j == CHOOSE k \in i..Len(s) :
                      /\ \A m \in i..k : IsDigit(s[m])
                      /\ (k = Len(s) \/ ~IsDigit(s[k + 1]))
         IN SubSeq(s, i, j)

\* int() of a string of digits
RECURSIVE IntOfDigits(_)
IntOfDigits(d) ==
    IF Len(d) = 1 THEN DigitVal(d[1])
    ELSE 10 * IntOfDigits(SubSeq(d, 1, Len(d) - 1)) + DigitVal(d[Len(d)])

\* a test `is None` in place of the truth test, and the default returned
\* (instead of the raise) when no digit is found
input_to_int_NoneTest(_input_value, _default) ==
    IF _input_value = PyNone THEN Ret(_default)
    ELSE LET result == ReSearchDigits(Str(_input_value))
         IN IF result = <<>>
            THEN Raise("Exception", "Input Error: Cannot use input", _input_value)
            ELSE Ret(PyInt(IntOfDigits(result)))

input_to_int_DefaultOnNoMatch(_input_value, _default) ==
    IF ~Truthy(_input_value) THEN Ret(_default)
    ELSE LET result == ReSearchDigits(Str(_input_value))
         IN IF result = <<>>
            THEN Ret(_default)
            ELSE Ret(PyInt(IntOfDigits(result)))

input_to_int(_input_value, _default) ==
    IF ~Truthy(_input_value) THEN Ret(_default)
    ELSE LET result == ReSearchDigits(Str(_input_value))
         IN IF result = <<>>
            THEN Raise("Exception", "Input Error: Cannot use input", _input_value)
            ELSE Ret(PyInt(IntOfDigits(result)))

----------------------------------------------------------------------------
(* input_tools.clean_get and cleaner_get *)

\* a subscriptable (or not) first argument: a list, a dict keyed 1..n, or None
Container(t, items) == [t |-> t, items |-> items]

\* _list[_i]
GetItem(c, i) ==
    CASE c.t = "list" ->
            IF i.t \notin {"int", "bool"}
            THEN Raise("TypeError", "list indices must be integers", i)
            ELSE IF i.n >= 0 /\ i.n < Len(c.items) THEN Ret(c.items[i.n + 1])
            ELSE IF i.n < 0 /\ -i.n <= Len(c.items)
                 THEN Ret(c.items[Len(c.items) + i.n + 1])
            ELSE Raise("IndexError", "list index out of range", i)
      [] c.t = "dict" ->
            IF i.t \in {"int", "bool"} /\ i.n \in 1..Len(c.items)
            THEN Ret(c.items[i.n])
            ELSE Raise("KeyError", "", i)
      [] OTHER -> Raise("TypeError", "object is not subscriptable", i)

IsIndexError(r) == r.kind = "raise" /\ r.exc = "IndexError"

\* the fallback to _list[0] left out: an IndexError goes straight to the default
clean_get_NoRetry(_list, _i, _default) ==
    LET first == GetItem(_list, _i)
    IN IF ~IsIndexError(first) THEN first ELSE Ret(_default)

\* the inner try left out: the IndexError of _list[0] escapes
clean_get_NoInnerTry(_list, _i, _default) ==
    LET first == GetItem(_list, _i)
    IN IF ~IsIndexError(first) THEN first ELSE GetItem(_list, PyInt(0))

clean_get(_list, _i, _default) ==
    LET first == GetItem(_list, _i)
    IN IF ~IsIndexError(first) THEN first
       ELSE LET second == GetItem(_list, PyInt(0))
            IN IF ~IsIndexError(second) THEN second ELSE Ret(_default)

cleaner_get(_list, _i, _default) ==
    LET first == GetItem(_list, _i)
    IN IF ~IsIndexError(first) THEN first
       ELSE LET second == GetItem(_list, PyInt(0))
            IN IF ~IsIndexError(second) THEN second ELSE Ret(_default)

----------------------------------------------------------------------------
(* Inputs of the input-cleaning functions *)

Chars == {"0", "1", "2", "7", "-", "A"}

RECURSIVE StringsUpTo(_)
StringsUpTo(n) ==
    IF n = 0 THEN {<<>>}
    ELSE LET shorter == StringsUpTo(n - 1)
         IN shorter \cup {Append(s, c) : s \in shorter, c \in Chars}

InputValues ==
    {PyNone, PyBool(TRUE), PyBool(FALSE)}
    \cup {PyInt(n) : n \in (-MaxInt)..MaxInt}
    \cup {PyFloat(m) : m \in {0, 1500000, -2250000, 12000000, 100}}
    \cup {PyStr(s) : s \in StringsUpTo(MaxStrLen)}
    \cup {PyList(s) : s \in {<<>>, <<"A">>, <<"A", "7">>}}

Defaults == {PyNone, PyInt(7), PyStr(<<"A">>)}

Elements == {PyStr(<<"A">>), PyInt(1), PyNone}

RECURSIVE ListsUpTo(_)
ListsUpTo(n) ==
    IF n = 0 THEN {<<>>}
    ELSE LET shorter == ListsUpTo(n - 1)
         IN shorter \cup {Append(l, e) : l \in shorter, e \in Elements}

Containers ==
    {Container("list", l) : l \in ListsUpTo(MaxListLen)}
    \cup {Container("dict", l) : l \in ListsUpTo(1)}
    \cup {Container("NoneType", <<>>)}

Indices ==
    {PyInt(n) : n \in (-(MaxListLen + 1))..(MaxListLen + 1)}
    \cup {PyNone, PyStr(<<"0">>), PyBool(TRUE)}

----------------------------------------------------------------------------
(* The input-cleaning functions, applied to drawn inputs *)

ValidatorIdle ==
    /\ cls = "none"
    /\ default = PyNone
    /\ idict = PyNone
    /\ extcalls = <<>>
    /\ before = PyNone
    /\ lastValid = PyNone

MemoIdle ==
    /\ sticky = <<>>
    /\ calls = <<>>
    /\ invoked = <<>>
    /\ firstRet = <<>>

InputCalls ==
    {[op |-> "input_to_int", value |-> v, default |-> d] :
        v \in InputValues, d \in Defaults}

GetCalls(op) ==
    {[op |-> op, list |-> l, i |-> i, default |-> d] :
        l \in Containers, i \in Indices, d \in Defaults}

\* one call is drawn and is pending; the actions below apply it
InitInput ==
    /\ call \in InputCalls \cup GetCalls("clean_get") \cup GetCalls("cleaner_get")
    /\ out = NoOut
    /\ ValidatorIdle
    /\ MemoIdle

CallInputToInt ==
    /\ call.op = "input_to_int"
    /\ out = NoOut
    /\ out' = input_to_int(call.value, call.default)
    /\ UNCHANGED <<call, validatorVars, memoVars>>

CallCleanGet ==
    /\ call.op = "clean_get"
    /\ out = NoOut
    /\ out' = clean_get(call.list, call.i, call.default)
    /\ UNCHANGED <<call, validatorVars, memoVars>>

CallCleanerGet ==
    /\ call.op = "cleaner_get"
    /\ out = NoOut
    /\ out' = cleaner_get(call.list, call.i, call.default)
    /\ UNCHANGED <<call, validatorVars, memoVars>>

NextInput == CallInputToInt \/ CallCleanGet \/ CallCleanerGet

SpecInput == InitInput /\ [][NextInput]_vars

----------------------------------------------------------------------------
(* input_tools.memoize *)

Funcs == {"f", "g"}     \* the functions wrapped by memoize

\* positional-argument tuples
ArgTuples == {<<>>, <<PyInt(1)>>, <<PyBool(TRUE)>>, <<PyList(<<>>)>>}

Kwargs == {"none", "k=1"}

\* what the wrapped function does when it runs: it returns a value (None and
\* a falsy 0 among them, and not the same one each time) or it raises
MemoValues == {PyNone, PyInt(0), PyInt(5)}
FuncResults == {Ret(v) : v \in MemoValues}
               \cup {Raise("RuntimeError", "raised by func", PyNone)}

\* hash(args) succeeds unless an argument is a list
Hashable(args) == \A k \in 1..Len(args) : args[k].t # "list"

\* the dict's view of a key: equal tuples are one key, and True == 1
HashKey(args) ==
    [k \in 1..Len(args) |->
        IF args[k].t = "bool" THEN PyInt(args[k].n) ELSE args[k]]

Keys == {HashKey(a) : a \in {b \in ArgTuples : Hashable(b)}}

\* a lookup `if sticky.get(args)` in place of the try: a falsy cached value
\* counts as absent
wrapper_TruthyLookup(cache, args, result) ==
    IF ~Hashable(args)
    THEN [out |-> Raise("TypeError", "unhashable type", PyNone),
          cache |-> cache, ran |-> FALSE]
    ELSE LET k == HashKey(args)
         IN IF cache[k] # Missing /\ Truthy(cache[k])
            THEN [out |-> Ret(cache[k]), cache |-> cache, ran |-> FALSE]
            ELSE IF result.kind = "return"
            THEN [out |-> result, cache |-> [cache EXCEPT ![k] = result.val],
                  ran |-> TRUE]
            ELSE [out |-> result, cache |-> cache, ran |-> TRUE]

\* wrapper(*args, **kwargs) on the dict `cache`; `result` is what func does
\* if it runs.  Yields the outcome, the dict afterwards, and whether func ran.
wrapper(cache, args, result) ==
    IF ~Hashable(args)
    THEN [out |-> Raise("TypeError", "unhashable type", PyNone),
          cache |-> cache, ran |-> FALSE]
    ELSE LET k == HashKey(args)
         IN IF cache[k] # Missing
            THEN [out |-> Ret(cache[k]), cache |-> cache, ran |-> FALSE]
            ELSE IF result.kind = "return"
            THEN [out |-> result, cache |-> [cache EXCEPT ![k] = result.val],
                  ran |-> TRUE]
            ELSE [out |-> result, cache |-> cache, ran |-> TRUE]

InitMemo ==
    /\ call = [op |-> "none"]
    /\ out = NoOut
    /\ ValidatorIdle
    /\ sticky = [k \in Keys |-> Missing]
    /\ calls = [fn \in Funcs |-> 0]
    /\ invoked = [fn \in Funcs |-> [k \in Keys |-> 0]]
    /\ firstRet = [fn \in Funcs |-> [k \in Keys |-> Missing]]

CallWrapper ==
    \E fn \in Funcs, args \in ArgTuples, kw \in Kwargs, result \in FuncResults :
        LET w == wrapper(sticky, args, result)
            k == HashKey(args)
        IN /\ calls["f"] + calls["g"] < MaxCalls
           /\ call' = [op |-> "memoize", fn |-> fn, args |-> args, kwargs |-> kw]
           /\ out' = w.out
           /\ sticky' = w.cache
           /\ calls' = [calls EXCEPT ![fn] = @ + 1]
           /\ invoked' = IF w.ran
                         THEN [invoked EXCEPT ![fn][k] = @ + 1] ELSE invoked
           /\ firstRet' = IF w.ran /\ w.out.kind = "return"
                             /\ firstRet[fn][k] = Missing
                          THEN [firstRet EXCEPT ![fn][k] = w.out.val]
                          ELSE firstRet
           /\ UNCHANGED validatorVars

NextMemo == CallWrapper

SpecMemo == InitMemo /\ [][NextMemo]_vars

----------------------------------------------------------------------------
(* int() and float() *)

Ok(v) == [ok |-> TRUE, val |-> v]
Fail == [ok |-> FALSE, val |-> PyNone]

RECURSIVE LStrip(_)
LStrip(s) == IF s # <<>> /\ Head(s) = " " THEN LStrip(Tail(s)) ELSE s

RECURSIVE RStrip(_)
RStrip(s) == IF s # <<>> /\ s[Len(s)] = " "
             THEN RStrip(SubSeq(s, 1, Len(s) - 1)) ELSE s

Strip(s) == RStrip(LStrip(s))

AllDigits(s) == \A k \in 1..Len(s) : IsDigit(s[k])

\* the value of a (possibly empty) string of digits
DigitsValue(s) == IF s = <<>> THEN 0 ELSE IntOfDigits(s)

HasSign(s) == s # <<>> /\ Head(s) \in {"-", "+"}
Unsigned(s) == IF HasSign(s) THEN Tail(s) ELSE s
SignOf(s) == IF s # <<>> /\ Head(s) = "-" THEN -1 ELSE 1

\* int(s) of a string: blanks stripped, an optional sign, then digits only
IntOfStr(s) ==
    LET body == Unsigned(Strip(s))
    IN IF body # <<>> /\ AllDigits(body)
       THEN Ok(PyInt(SignOf(Strip(s)) * IntOfDigits(body)))
       ELSE Fail

\* truncation toward zero
Trunc(micro) == IF micro >= 0 THEN micro \div FloatScale
                ELSE -((-micro) \div FloatScale)

\* int(v)
IntOf(v) ==
    CASE v.t = "int" -> Ok(v)
      [] v.t = "bool" -> Ok(PyInt(v.n))
      [] v.t = "float" -> IF IsNaN(v) THEN Fail ELSE Ok(PyInt(Trunc(v.n)))
      [] v.t = "str" -> IntOfStr(v.s)
      [] OTHER -> Fail

\* float(s) of a string: blanks stripped, an optional sign, then digits with at
\* most one point and at least one digit (at most six after the point), or nan
FloatOfStr(s) ==
    LET body == Unsigned(Strip(s))
        points == {k \in 1..Len(body) : body[k] = "."}
        dot == IF points = {} THEN Len(body) + 1 ELSE CHOOSE k \in points : TRUE
        whole == SubSeq(body, 1, dot - 1)
        frac == SubSeq(body, dot + 1, Len(body))
    IN IF body = <<"n", "a", "n">> THEN Ok(PyNaN)
       ELSE IF /\ Cardinality(points) <= 1
               /\ AllDigits(whole) /\ AllDigits(frac)
               /\ Len(whole) + Len(frac) >= 1
               /\ Len(frac) <= 6
       THEN Ok(PyFloat(SignOf(Strip(s))
                       * (DigitsValue(whole) * FloatScale
                          + DigitsValue(frac) * Pow10(6 - Len(frac)))))
       ELSE Fail

\* float(v)
FloatOf(v) ==
    CASE v.t = "int" -> Ok(PyFloat(v.n * FloatScale))
      [] v.t = "bool" -> Ok(PyFloat(v.n * FloatScale))
      [] v.t = "float" -> Ok(v)
      [] v.t = "str" -> FloatOfStr(v.s)
      [] OTHER -> Fail

\* a < b on floats: every comparison with nan is false
FLess(a, b) == ~IsNaN(a) /\ ~IsNaN(b) /\ a.n < b.n
FLessEq(a, b) == ~IsNaN(a) /\ ~IsNaN(b) /\ a.n <= b.n

----------------------------------------------------------------------------
(* validators: the validate methods *)

NumericClasses ==
    {"IntegerNonZero", "IntegerPositiveValueOrZero", "Float", "FloatNonZero",
     "FloatPositiveValue", "FloatPercentage", "FloatMax24"}

\* the unit validators that re-check the sign of the converted result
PositiveUnitClasses ==
    {"UnitW_M2K", "UnitW_K", "UnitWH_M3", "UnitKWH", "UnitKWH_M2", "UnitW_M2",
     "UnitM3_S", "UnitKW", "UnitW"}

AnySignUnitClasses ==
    {"UnitM", "UnitM2", "UnitMM", "UnitW_MK", "UnitDeltaC", "UnitDegreeC",
     "UnitMeterPerSecond", "UnitKG_M2", "UnitCost_M2", "UnitCost_KWH"}

UnitClasses == PositiveUnitClasses \cup AnySignUnitClasses

Classes == {"NotNone", "HBName"} \cup NumericClasses \cup UnitClasses

\* the unit each unit validator converts to
CanonicalUnit(c) ==
    CASE c = "UnitM" -> "M"
      [] c = "UnitM2" -> "M2"
      [] c = "UnitMM" -> "MM"
      [] c = "UnitW_MK" -> "W/MK"
      [] c = "UnitW_M2K" -> "W/M2K"
      [] c = "UnitW_K" -> "W/K"
      [] c = "UnitDeltaC" -> "DELTA-C"
      [] c = "UnitDegreeC" -> "C"
      [] c = "UnitMeterPerSecond" -> "M/S"
      [] c = "UnitWH_M3" -> "WH/M3"
      [] c = "UnitKWH" -> "KWH"
      [] c = "UnitKWH_M2" -> "KWH/M2"
      [] c = "UnitW_M2" -> "W/M2"
      [] c = "UnitM3_S" -> "M3/S"
      [] c = "UnitKW" -> "KW"
      [] c = "UnitW" -> "W"
      [] c = "UnitKG_M2" -> "KG/M2"
      [] c = "UnitCost_M2" -> "COST/M2"
      [] c = "UnitCost_KWH" -> "COST/KWH"

\* what validate yields: its outcome and the external calls it made
Result(o, log) == [out |-> o, calls |-> log]

TypeError(new_value) == Raise("ValueError", "is not allowed", new_value)
DomainError(m) == Raise("ValueError", m, PyNone)

\* the stored value first, the default only when nothing is stored
NoneStep_OldFirst(coerced, old_value) ==
    IF old_value # PyNone THEN Ret(old_value)
    ELSE IF coerced.ok THEN Ret(coerced.val) ELSE Ret(old_value)

\* the step for new_value None: `try: return <type>(self.default)`,
\* `except: return old_value`
NoneStep(coerced, old_value) ==
    IF coerced.ok THEN Ret(coerced.val) ELSE Ret(old_value)

NotNone_validate(new_value, old_value) ==
    IF new_value # PyNone THEN Ret(new_value)
    ELSE IF old_value # PyNone THEN Ret(old_value)
    ELSE DomainError("may not be None")

\* honeybee's clean_and_id_ep_string: a text gets an identifier appended
\* ("#" stands for the random digits); anything else is refused
CleanAndId(v) ==
    IF v.t = "str" /\ v.s # <<>> THEN Ok(PyStr(v.s \o <<"_", "#">>)) ELSE Fail

Underscored(s) == [k \in 1..Len(s) |-> IF s[k] = " " THEN "_" ELSE s[k]]

\* `ext.clean` is what honeybee's clean_ep_string does with the text: it
\* keeps it, leaves nothing of it, or raises
HBName_validate(dflt, new_value, old_value, ext) ==
    IF new_value = PyNone THEN NoneStep(CleanAndId(dflt), old_value)
    ELSE LET text == Underscored(Strip(Str(new_value)))
             cleaned == IF ext.clean = "same" THEN text ELSE <<>>
         IN IF ext.clean = "raise"
            THEN Raise("AssertionError", "raised by clean_ep_string", PyNone)
            ELSE IF cleaned = <<>> THEN DomainError("cannot be blank")
            ELSE Ret(PyStr(cleaned))

\* `< 0` in place of `< 1`: zero is let through
IntegerNonZero_validate_ZeroAllowed(dflt, new_value, old_value) ==
    IF new_value = PyNone THEN NoneStep(IntOf(dflt), old_value)
    ELSE LET n == IntOf(new_value)
         IN IF ~n.ok THEN TypeError(new_value)
            ELSE IF n.val.n < 0 THEN DomainError("cannot be zero or negative")
            ELSE Ret(n.val)

IntegerNonZero_validate(dflt, new_value, old_value) ==
    IF new_value = PyNone THEN NoneStep(IntOf(dflt), old_value)
    ELSE LET n == IntOf(new_value)
         IN IF ~n.ok THEN TypeError(new_value)
            ELSE IF n.val.n < 1 THEN DomainError("cannot be zero or negative")
            ELSE Ret(n.val)

IntegerPositiveValueOrZero_validate(dflt, new_value, old_value) ==
    IF new_value = PyNone THEN NoneStep(IntOf(dflt), old_value)
    ELSE LET n == IntOf(new_value)
         IN IF ~n.ok THEN TypeError(new_value)
            ELSE IF n.val.n < 0 THEN DomainError("cannot be negative")
            ELSE Ret(n.val)

Float_validate(dflt, new_value, old_value) ==
    IF new_value = PyNone THEN NoneStep(FloatOf(dflt), old_value)
    ELSE LET x == FloatOf(new_value)
         IN IF ~x.ok THEN TypeError(new_value) ELSE Ret(x.val)

FloatNonZero_tolerance == 100           \* 0.0001
FloatMax24_tolerance == -100            \* -0.0001

FloatNonZero_validate(dflt, new_value, old_value) ==
    IF new_value = PyNone THEN NoneStep(FloatOf(dflt), old_value)
    ELSE LET x == FloatOf(new_value)
         IN IF ~x.ok THEN TypeError(new_value)
            ELSE IF FLess(x.val, PyFloat(FloatNonZero_tolerance))
            THEN DomainError("cannot be zero")
            ELSE Ret(x.val)

FloatPositiveValue_validate(dflt, new_value, old_value) ==
    IF new_value = PyNone THEN NoneStep(FloatOf(dflt), old_value)
    ELSE LET x == FloatOf(new_value)
         IN IF ~x.ok THEN TypeError(new_value)
            ELSE IF FLess(x.val, PyFloat(0)) THEN DomainError("cannot be negative")
            ELSE Ret(x.val)

\* `1.0 < new_value <= 100.0` in place of `< 100.0`: 100 is rescaled to 1.0
FloatPercentage_validate_Rescale100(dflt, new_value, old_value) ==
    IF new_value = PyNone THEN NoneStep(FloatOf(dflt), old_value)
    ELSE LET x == FloatOf(new_value)
         IN IF ~x.ok THEN TypeError(new_value)
            ELSE LET scaled ==
                        IF /\ FLess(PyFloat(FloatScale), x.val)
                           /\ FLessEq(x.val, PyFloat(100 * FloatScale))
                        THEN PyFloat(x.val.n \div 100) ELSE x.val
                 IN IF ~(/\ FLessEq(PyFloat(0), scaled)
                         /\ FLessEq(scaled, PyFloat(FloatScale)))
                    THEN DomainError("must be between 0.0 and 1.0")
                    ELSE Ret(scaled)

FloatPercentage_validate(dflt, new_value, old_value) ==
    IF new_value = PyNone THEN NoneStep(FloatOf(dflt), old_value)
    ELSE LET x == FloatOf(new_value)
         IN IF ~x.ok THEN TypeError(new_value)
            ELSE LET scaled ==
                        IF /\ FLess(PyFloat(FloatScale), x.val)
                           /\ FLess(x.val, PyFloat(100 * FloatScale))
                        THEN PyFloat(x.val.n \div 100) ELSE x.val
                 IN IF ~(/\ FLessEq(PyFloat(0), scaled)
                         /\ FLessEq(scaled, PyFloat(FloatScale)))
                    THEN DomainError("must be between 0.0 and 1.0")
                    ELSE Ret(scaled)

FloatMax24_validate(dflt, new_value, old_value) ==
    IF new_value = PyNone THEN NoneStep(FloatOf(dflt), old_value)
    ELSE LET x == FloatOf(new_value)
         IN IF ~x.ok THEN TypeError(new_value)
            ELSE IF /\ ~IsNaN(x.val)
                    /\ 24 * FloatScale - x.val.n < FloatMax24_tolerance
            THEN DomainError("cannot be greater than 24")
            ELSE Ret(x.val)

\* a call of ph_units' parser.parse_input or converter.convert, with what the
\* library did with it
ExtCall(fn, value, from, to, outcome) ==
    [fn |-> fn, value |-> value, from |-> from, to |-> to, outcome |-> outcome]

FromUnit_AlwaysCanonical(c, unit) == CanonicalUnit(c)

\* `input_units or "<canonical unit>"`: the unit handed to convert
FromUnit(c, unit) == IF unit # "" THEN unit ELSE CanonicalUnit(c)

RejectedSign_OfInput(c, input_value, result) ==
    /\ c \in PositiveUnitClasses
    /\ Truthy(input_value)
    /\ FLess(input_value, PyFloat(0))

\* `if result and result < 0.0`, which only the positive-only classes have
RejectedSign(c, input_value, result) ==
    /\ c \in PositiveUnitClasses
    /\ Truthy(result)
    /\ FLess(result, PyFloat(0))

\* the validate of the unit validators.  `ext.parse` is what parse_input
\* does with the text (it raises, or yields a magnitude and a unit, "" for no
\* unit token); `ext.convert` is what convert does (it raises or yields a float)
Unit_validate(c, dflt, new_value, old_value, ext) ==
    IF new_value = PyNone THEN Result(NoneStep(FloatOf(dflt), old_value), <<>>)
    ELSE LET parsed == ExtCall("parse_input", PyStr(Str(new_value)), "", "",
                               ext.parse)
             input_value == FloatOf(ext.parse.value)
             input_units == FromUnit(c, ext.parse.unit)
             converted == ExtCall("convert", input_value.val, input_units,
                                  CanonicalUnit(c), ext.convert)
             result == ext.convert.val
         IN IF ext.parse.kind = "raise"
            THEN Result(Raise(ext.parse.exc, "raised by parse_input", PyNone),
                        <<parsed>>)
            ELSE IF ~input_value.ok THEN Result(TypeError(new_value), <<parsed>>)
            ELSE IF ext.convert.kind = "raise"
            THEN Result(Raise(ext.convert.exc, "raised by convert", PyNone),
                        <<parsed, converted>>)
            ELSE IF RejectedSign(c, input_value.val, result)
            THEN Result(DomainError("cannot be negative"), <<parsed, converted>>)
            ELSE Result(Ret(result), <<parsed, converted>>)

\* self.validate(name, new_value, old_value) of the class c
validate(c, dflt, new_value, old_value, ext) ==
    CASE c = "NotNone" -> Result(NotNone_validate(new_value, old_value), <<>>)
      [] c = "HBName" ->
            Result(HBName_validate(dflt, new_value, old_value, ext), <<>>)
      [] c = "IntegerNonZero" ->
            Result(IntegerNonZero_validate(dflt, new_value, old_value), <<>>)
      [] c = "IntegerPositiveValueOrZero" ->
            Result(IntegerPositiveValueOrZero_validate(dflt, new_value, old_value),
                   <<>>)
      [] c = "Float" -> Result(Float_validate(dflt, new_value, old_value), <<>>)
      [] c = "FloatNonZero" ->
            Result(FloatNonZero_validate(dflt, new_value, old_value), <<>>)
      [] c = "FloatPositiveValue" ->
            Result(FloatPositiveValue_validate(dflt, new_value, old_value), <<>>)
      [] c = "FloatPercentage" ->
            Result(FloatPercentage_validate(dflt, new_value, old_value), <<>>)
      [] c = "FloatMax24" ->
            Result(FloatMax24_validate(dflt, new_value, old_value), <<>>)
      [] c \in UnitClasses -> Unit_validate(c, dflt, new_value, old_value, ext)

----------------------------------------------------------------------------
(* validators: the descriptor *)

\* the value handed in is stored, not what validate returned
Validated_set_StoresInput(c, dflt, d, value, ext) ==
    LET old_value == IF d = Missing THEN PyNone ELSE d
        r == validate(c, dflt, value, old_value, ext)
    IN [out |-> r.out,
        dict |-> IF r.out.kind = "return" THEN value ELSE d,
        calls |-> r.calls]

\* the entry is dropped before validate runs, and written back on success only
Validated_set_DropsOnFailure(c, dflt, d, value, ext) ==
    LET old_value == IF d = Missing THEN PyNone ELSE d
        r == validate(c, dflt, value, old_value, ext)
    IN [out |-> r.out,
        dict |-> IF r.out.kind = "return" THEN r.out.val ELSE Missing,
        calls |-> r.calls]

\* Validated.__set__: validate runs on the new value and on the value the
\* instance holds (None when it holds none); what it returns is stored
Validated_set(c, dflt, d, value, ext) ==
    LET old_value == IF d = Missing THEN PyNone ELSE d
        r == validate(c, dflt, value, old_value, ext)
    IN [out |-> r.out,
        dict |-> IF r.out.kind = "return" THEN r.out.val ELSE d,
        calls |-> r.calls]

\* Validated.__get__
Validated_get(d) ==
    IF d = Missing THEN Raise("KeyError", "storage_name", PyNone) ELSE Ret(d)

\* the defaults a descriptor is configured with (None: no default given)
ConfigDefaults ==
    {PyNone, PyStr(<<"3">>), PyInt(0), PyStr(<<"A">>), PyFloat(-2500000)}

NumericInputs ==
    {PyNone, PyBool(TRUE), PyList(<<>>)}
    \cup {PyInt(n) : n \in {-1, 0, 1, 5, 24, 25, 50, 100, 150}}
    \cup {PyFloat(m) : m \in {500000, -100000, 50, 1000000, 1500000, 3700000,
                              -500000, 99990000, 100000000, 24000100, 24000200}}
    \cup {PyNaN}
    \cup {PyStr(s) : s \in {<<>>, <<"3">>, <<"-", "1">>, <<"0", ".", "5">>,
                            <<"A">>, <<" ", "5">>, <<"n", "a", "n">>,
                            <<"3", ".", "7">>}}

NameInputs ==
    {PyNone, PyInt(0), PyStr(<<>>), PyStr(<<" ">>), PyStr(<<"A", " ", "7">>)}

UnitInputs == {PyNone, PyInt(2), PyStr(<<"-", "2", " ", "F", "T">>)}

SetValues(c) ==
    IF c \in NumericClasses THEN NumericInputs
    ELSE IF c \in UnitClasses THEN UnitInputs
    ELSE NameInputs

Parsed(magnitude, unit) ==
    [kind |-> "return", exc |-> "", value |-> PyStr(magnitude), unit |-> unit]
ParseRaises(e) ==
    [kind |-> "raise", exc |-> e, value |-> PyNone, unit |-> ""]
Converted(micro) == [kind |-> "return", exc |-> "", val |-> PyFloat(micro)]
ConvertRaises(e) == [kind |-> "raise", exc |-> e, val |-> PyNone]

ConvertOutcomes ==
    {ConvertRaises("Exception")}
    \cup {Converted(m) : m \in {-3000000, 0, 7000000}}

\* what the external libraries may do during one validate
UnitExternals ==
    {[parse |-> ParseRaises(e), convert |-> ConvertRaises("Exception")] :
        e \in {"ValueError", "Exception"}}
    \cup {[parse |-> Parsed(<<"A">>, ""), convert |-> ConvertRaises("Exception")]}
    \cup {[parse |-> Parsed(m, u), convert |-> cv] :
            m \in {<<"2">>, <<"-", "2">>}, u \in {"", "FT"},
            cv \in ConvertOutcomes}

NoExternals == {[clean |-> "same"]}

Externals(c, value) ==
    IF value = PyNone THEN NoExternals
    ELSE IF c = "HBName" THEN {[clean |-> x] : x \in {"same", "blank", "raise"}}
    ELSE IF c \in UnitClasses THEN UnitExternals
    ELSE NoExternals

\* an instance whose class holds one descriptor, not yet set
Init ==
    /\ cls \in Classes
    /\ default \in ConfigDefaults
    /\ idict = Missing
    /\ extcalls = <<>>
    /\ before = Missing
    /\ lastValid = Missing
    /\ call = [op |-> "none", value |-> PyNone]
    /\ out = NoOut
    /\ MemoIdle

\* instance.attribute = value
Set ==
    \E value \in SetValues(cls) : \E ext \in Externals(cls, value) :
        \E s \in {Validated_set(cls, default, idict, value, ext)} :
           /\ call' = [op |-> "set", value |-> value]
           /\ out' = s.out
           /\ idict' = s.dict
           /\ extcalls' = s.calls
           /\ before' = idict
           /\ lastValid' = IF s.out.kind = "return" THEN s.out.val ELSE lastValid
           /\ UNCHANGED <<cls, default, memoVars>>

\* instance.attribute
Get ==
    /\ call' = [op |-> "get", value |-> PyNone]
    /\ out' = Validated_get(idict)
    /\ extcalls' = <<>>
    /\ before' = idict
    /\ UNCHANGED <<cls, default, idict, lastValid, memoVars>>

Next == Set \/ Get

Spec == Init /\ [][Next]_vars

----------------------------------------------------------------------------
(* Properties of the input-cleaning functions *)

Applied(op) == call.op = op /\ out.kind # "none"

HasDigit(s) == \E k \in 1..Len(s) : IsDigit(s[k])

RECURSIVE WeightedSum(_, _, _)
\* the decimal value of s[i..j]: each digit weighted by its place
WeightedSum(s, i, j) ==
    IF i > j THEN 0
    ELSE DigitVal(s[i]) * Pow10(j - i) + WeightedSum(s, i + 1, j)

\* C3: input_to_int of a truthy input whose string form holds a digit returns,
\* as an int, the value of the first (leftmost, maximal) run of digits of that
\* string form, whatever stands before or after the run.
C3_FirstDigitRun ==
    (Applied("input_to_int") /\ Truthy(call.value) /\ HasDigit(Str(call.value)))
    => LET s == Str(call.value)
       IN \E i \in 1..Len(s) : \E j \in i..Len(s) :
            /\ \A m \in 1..(i - 1) : ~IsDigit(s[m])
            /\ \A m \in i..j : IsDigit(s[m])
            /\ (j = Len(s) \/ ~IsDigit(s[j + 1]))
            /\ out = Ret(PyInt(WeightedSum(s, i, j)))

C3_Witness ==
    /\ Applied("input_to_int")
    /\ call.value = PyStr(<<"A", "1", "2">>)
    /\ out = Ret(PyInt(12))

\* C4: input_to_int of a truthy input whose string form holds no digit raises
\* the input error, whose message names the input value and its type; it
\* returns neither a value nor the default.
C4_NoDigitRaises ==
    (Applied("input_to_int") /\ Truthy(call.value) /\ ~HasDigit(Str(call.value)))
    => /\ out.kind = "raise"
       /\ out.exc = "Exception"
       /\ out.msg = "Input Error: Cannot use input"
       /\ out.about = call.value

C4_Witness ==
    /\ Applied("input_to_int")
    /\ call.value = PyStr(<<"-", "A">>)
    /\ out.kind = "raise"

\* C5: input_to_int of a falsy input (None, "", 0, [], False) returns the
\* caller's default unchanged and does not raise.
C5_FalsyReturnsDefault ==
    (Applied("input_to_int") /\ ~Truthy(call.value))
    => out = Ret(call.default)

C5_Witness ==
    /\ Applied("input_to_int")
    /\ call.value = PyInt(0)
    /\ out = Ret(PyInt(7))

IsGetCall == Applied("clean_get") \/ Applied("cleaner_get")

\* a list indexed by an int: Python's valid indices are -len .. len-1
ListAndIntIndex == call.list.t = "list" /\ call.i.t = "int"

\* C6: clean_get and cleaner_get of a list and an integer index: an index in
\* range (Python's -len .. len-1, a negative one counting from the end)
\* returns the element at that index; an index out of range returns element 0
\* of a non-empty list and the default of an empty one; the two functions
\* agree on every (list, index, default).
C6_GetOrFallback ==
    IsGetCall
    => /\ ListAndIntIndex
          => LET l == call.list.items
                 n == Len(l)
                 i == call.i.n
             IN IF -n <= i /\ i < n THEN out = Ret(l[(i % n) + 1])
                ELSE IF n > 0 THEN out = Ret(l[1])
                ELSE out = Ret(call.default)
       /\ Applied("clean_get")
          => out = cleaner_get(call.list, call.i, call.default)
       /\ Applied("cleaner_get")
          => out = clean_get(call.list, call.i, call.default)

C6_Witness ==
    /\ Applied("clean_get")
    /\ call.list = Container("list", <<PyInt(1), PyStr(<<"A">>)>>)
    /\ call.i = PyInt(3)
    /\ out = Ret(PyInt(1))

\* C7 as claimed: no call of clean_get or cleaner_get raises, whatever the
\* sequence argument (None and non-list containers included) and the index.
C7_NeverRaises_Claimed == IsGetCall => out.kind = "return"

\* C7, amended: with a list and an integer index (negative and out of range
\* included) and any default, clean_get and cleaner_get return a value; no
\* IndexError escapes.
C7_ListIndexNeverRaises ==
    (IsGetCall /\ ListAndIntIndex) => out.kind = "return"

C7_Witness ==
    /\ Applied("clean_get")
    /\ call.list = Container("list", <<>>)
    /\ call.i = PyInt(-1)
    /\ out = Ret(call.default)

----------------------------------------------------------------------------
(* Properties of memoize *)

\* only fn's wrapper has been called
OnlyCalled(fn) == \A g \in Funcs \ {fn} : calls[g] = 0

\* C8 as claimed: in calls to one wrapped function, the function runs at most
\* once per distinct positional-argument tuple.
C8_RunsAtMostOnce_Claimed ==
    \A fn \in Funcs : OnlyCalled(fn) => \A k \in Keys : invoked[fn][k] <= 1

\* C8, amended: in calls to one wrapped function, once the function has
\* returned for a positional-argument tuple, every later call with the same
\* positional arguments returns the value that call stored (be it None or
\* falsy, and whatever the function would return now) and does not run the
\* function again.
C8_CachedAfterFirstReturn ==
    [][\A fn \in Funcs : \A k \in Keys :
        (/\ OnlyCalled(fn)'
         /\ firstRet[fn][k] # Missing
         /\ calls'[fn] = calls[fn] + 1
         /\ Hashable(call'.args)
         /\ HashKey(call'.args) = k)
        => /\ out' = Ret(firstRet[fn][k])
           /\ invoked'[fn][k] = invoked[fn][k]
           /\ sticky'[k] = firstRet[fn][k]]_vars

\* the function returned None on the first call, whose value a second call
\* (with an equal key) returned without running it again
C8_Witness ==
    /\ call.op = "memoize"
    /\ call.fn = "f"
    /\ OnlyCalled("f")
    /\ calls["f"] = 2
    /\ invoked["f"][<<PyInt(1)>>] = 1
    /\ firstRet["f"][<<PyInt(1)>>] = PyNone
    /\ out = Ret(PyNone)

----------------------------------------------------------------------------
(* Properties of the validator descriptors *)

IsFloat(v) == v.t = "float"

\* the rule each validator states for the values of its attribute
Rule(c, v) ==
    CASE c = "NotNone" -> v # PyNone
      [] c = "HBName" -> v.t = "str" /\ v.s # <<>>
      [] c = "IntegerNonZero" -> v.t = "int" /\ v.n >= 1
      [] c = "IntegerPositiveValueOrZero" -> v.t = "int" /\ v.n >= 0
      [] c = "Float" -> IsFloat(v)
      [] c = "FloatNonZero" -> IsFloat(v) /\ (IsNaN(v) \/ v.n # 0)
      [] c = "FloatPositiveValue" -> IsFloat(v) /\ ~FLess(v, PyFloat(0))
      [] c = "FloatPercentage" ->
            IsFloat(v) /\ FLessEq(PyFloat(0), v) /\ FLessEq(v, PyFloat(FloatScale))
      [] c = "FloatMax24" ->
            IsFloat(v) /\ ~FLess(PyFloat(24 * FloatScale - FloatMax24_tolerance), v)
      [] c \in PositiveUnitClasses -> IsFloat(v) /\ ~FLess(v, PyFloat(0))
      [] c \in AnySignUnitClasses -> IsFloat(v)

\* C1 as claimed: whatever is stored under the storage name satisfies the
\* validator's rule (an IntegerNonZero attribute never holds 0, a negative
\* integer or None).
C1_StoredSatisfiesRule_Claimed == idict # Missing => Rule(cls, idict)

\* the configured default can be coerced to the validator's target type
DefaultCoercible(c, dflt) ==
    CASE c = "NotNone" -> FALSE
      [] c = "HBName" -> CleanAndId(dflt).ok
      [] c \in {"IntegerNonZero", "IntegerPositiveValueOrZero"} -> IntOf(dflt).ok
      [] OTHER -> FloatOf(dflt).ok

\* C2 as claimed: a set of None on an attribute that was never stored, with a
\* default that is missing or cannot be coerced, fails and stores nothing.
C2_NoneWithoutFallbackFails_Claimed ==
    [][(/\ call'.op = "set"
        /\ call'.value = PyNone
        /\ idict = Missing
        /\ ~DefaultCoercible(cls, default))
       => (out'.kind = "raise" /\ idict' = Missing)]_vars

SetBy(c) == cls = c /\ call.op = "set"

\* C9: IntegerNonZero.validate returns n for an input that coerces to an
\* integer n >= 1, fails with the domain error for n <= 0 and with the
\* type-mismatch error for an input that does not coerce; a None input with a
\* default that coerces to an integer (such as "3") yields that integer.
C9_IntegerNonZero ==
    SetBy("IntegerNonZero")
    => LET v == call.value
           n == IntOf(v)
           d == IntOf(default)
       IN /\ (v # PyNone /\ n.ok /\ n.val.n >= 1) => out = Ret(PyInt(n.val.n))
          /\ (v # PyNone /\ n.ok /\ n.val.n <= 0)
             => out = DomainError("cannot be zero or negative")
          /\ (v # PyNone /\ ~n.ok) => out = TypeError(v)
          /\ (v = PyNone /\ d.ok) => out = Ret(PyInt(d.val.n))
          /\ v = PyInt(5) => out = Ret(PyInt(5))
          /\ v \in {PyInt(0), PyInt(-1)} => out.kind = "raise"
          /\ (v = PyNone /\ default = PyStr(<<"3">>)) => out = Ret(PyInt(3))

C9_Witness ==
    /\ SetBy("IntegerNonZero")
    /\ default = PyStr(<<"3">>)
    /\ call.value = PyNone
    /\ out = Ret(PyInt(3))
    /\ idict = PyInt(3)

\* C10: FloatPercentage.validate of a float-coercible input x that is not
\* None: x / 100 for 1.0 < x < 100.0; x itself for 0.0 <= x <= 1.0; a failure
\* for x >= 100.0 (100.0 itself is not rescaled) and for x < 0.0; so every
\* value returned lies in [0.0, 1.0].
C10_FloatPercentage ==
    (SetBy("FloatPercentage") /\ call.value # PyNone /\ FloatOf(call.value).ok)
    => LET x == FloatOf(call.value).val
           one == PyFloat(FloatScale)
           hundred == PyFloat(100 * FloatScale)
           failed == out = DomainError("must be between 0.0 and 1.0")
       IN /\ (FLess(one, x) /\ FLess(x, hundred)) => out = Ret(PyFloat(x.n \div 100))
          /\ (FLessEq(PyFloat(0), x) /\ FLessEq(x, one)) => out = Ret(x)
          /\ x = hundred => failed
          /\ (FLessEq(hundred, x) \/ FLess(x, PyFloat(0))) => failed
          /\ out.kind = "return"
             => FLessEq(PyFloat(0), out.val) /\ FLessEq(out.val, one)
          /\ call.value \in {PyInt(50), PyFloat(500000)} => out = Ret(PyFloat(500000))
          /\ call.value \in {PyInt(150), PyInt(100), PyFloat(-100000)} => failed

C10_Witness ==
    /\ SetBy("FloatPercentage")
    /\ call.value = PyFloat(99990000)
    /\ out = Ret(PyFloat(999900))
    /\ idict = PyFloat(999900)

\* C11 as claimed: FloatNonZero.validate of a float-coercible input x that is
\* not None fails exactly when |x| < 0.0001, and returns x for every other x,
\* positive or negative.
C11_RejectsOnlyNearZero_Claimed ==
    (SetBy("FloatNonZero") /\ call.value # PyNone /\ FloatOf(call.value).ok)
    => LET x == FloatOf(call.value).val
           nearZero == ~IsNaN(x) /\ Abs(x.n) < FloatScale \div 10000
       IN IF nearZero THEN out = DomainError("cannot be zero") ELSE out = Ret(x)

----------------------------------------------------------------------------
(* Properties of the unit validators *)

UnitSet == cls \in UnitClasses /\ call.op = "set" /\ call.value # PyNone

\* the last validate handed str(new_value) to parse_input, which yielded a
\* magnitude that float() accepts, and a unit
UnitParsed ==
    /\ UnitSet
    /\ Len(extcalls) >= 1
    /\ extcalls[1].fn = "parse_input"
    /\ extcalls[1].value = PyStr(Str(call.value))
    /\ extcalls[1].outcome.kind = "return"
    /\ FloatOf(extcalls[1].outcome.value).ok

ConvertCalls == SelectSeq(extcalls, LAMBDA e : e.fn = "convert")

\* one call of convert, of the parsed magnitude, from the parsed unit (the
\* canonical unit when there is none) to the canonical unit
ConvertedOnce ==
    /\ Len(ConvertCalls) = 1
    /\ ConvertCalls[1].value = FloatOf(extcalls[1].outcome.value).val
    /\ ConvertCalls[1].from = (IF extcalls[1].outcome.unit = ""
                               THEN CanonicalUnit(cls)
                               ELSE extcalls[1].outcome.unit)
    /\ ConvertCalls[1].to = CanonicalUnit(cls)

C13_ExternalFailureIsTypeError_Claimed ==
    (UnitSet /\ \E i \in 1..Len(extcalls) : extcalls[i].outcome.kind = "raise")
    => out = TypeError(call.value)

\* C17: a positive-only unit validator fails with the domain error exactly
\* when the converted result is strictly negative, and returns the converted
\* result when it is zero or positive, whatever the sign of the magnitude
\* that was parsed from the input.
C17_SignOfConvertedResult ==
    (/\ UnitParsed
     /\ cls \in {"UnitW_M2K", "UnitW_K", "UnitWH_M3", "UnitKWH", "UnitKWH_M2",
                 "UnitW_M2", "UnitM3_S", "UnitKW", "UnitW"}
     /\ Len(ConvertCalls) = 1
     /\ ConvertCalls[1].outcome.kind = "return")
    => LET result == ConvertCalls[1].outcome.val
           negative == result.n < 0
       IN /\ negative <=> out = DomainError("cannot be negative")
          /\ ~negative => out = Ret(result)
          /\ negative => idict = before

\* a positive magnitude whose converted result is negative
C17_Witness ==
    /\ UnitParsed
    /\ cls = "UnitW"
    /\ extcalls[1].outcome.value = PyStr(<<"2">>)
    /\ ConvertCalls[1].outcome = Converted(-3 * FloatScale)
    /\ out = DomainError("cannot be negative")

----------------------------------------------------------------------------
(* Properties of the stored value *)

KeyError == Raise("KeyError", "storage_name", PyNone)

\* C14: a read returns the value that the most recent validate call that
\* returned, returned; a read before any set has succeeded fails with the
\* lookup failure (KeyError).
C14_ReadReturnsLastValidated ==
    call.op = "get"
    => IF lastValid = Missing THEN out = KeyError ELSE out = Ret(lastValid)

\* a read after a set of "3" that IntegerNonZero stored as 3
C14_Witness ==
    /\ cls = "IntegerNonZero"
    /\ call.op = "get"
    /\ lastValid = PyInt(3)
    /\ default # PyStr(<<"3">>)
    /\ out = Ret(PyInt(3))

\* C15: a set in which validate raises leaves the stored value as it was
\* (absent if it was absent), and a read that follows it yields what a read
\* before it would have yielded.
C15_FailedSetChangesNothing ==
    [][/\ (call'.op = "set" /\ out'.kind = "raise") => idict' = idict
       /\ (call.op = "set" /\ out.kind = "raise" /\ call'.op = "get")
          => out' = (IF before = Missing THEN KeyError ELSE Ret(before))]_vars

\* a stored 5 survives the failed set of 0
C15_Witness ==
    /\ SetBy("IntegerNonZero")
    /\ call.value = PyInt(0)
    /\ out.kind = "raise"
    /\ before = PyInt(5)
    /\ idict = PyInt(5)

\* what the None step makes of the default
CoercedDefault(c, dflt) ==
    CASE c = "HBName" -> CleanAndId(dflt).val
      [] c \in {"IntegerNonZero", "IntegerPositiveValueOrZero"} -> IntOf(dflt).val
      [] OTHER -> FloatOf(dflt).val

\* C16: in every validator with the None step, a set of None yields the
\* coerced default whenever the default can be coerced, whatever is stored;
\* the stored value is what it yields only when the default is missing or
\* cannot be coerced.
C16_DefaultBeforeOld ==
    (call.op = "set" /\ call.value = PyNone /\ cls \in Classes \ {"NotNone"})
    => IF DefaultCoercible(cls, default)
       THEN out = Ret(CoercedDefault(cls, default)) /\ idict = out.val
       ELSE before # Missing => out = Ret(before)

\* 0.5 is stored, the default "3" wins
C16_Witness ==
    /\ SetBy("Float")
    /\ call.value = PyNone
    /\ default = PyStr(<<"3">>)
    /\ before = PyFloat(500000)
    /\ out = Ret(PyFloat(3 * FloatScale))
    /\ idict = PyFloat(3 * FloatScale)

----------------------------------------------------------------------------
(* Properties of wrappers that share the cache *)

\* C18 as claimed: whatever functions the wrappers called so far belong to,
\* a value a wrapper returns for positional arguments args is the value its
\* own function returned for args, never one cached by another function.
C18_ReturnsOwnResult_Claimed ==
    (call.op = "memoize" /\ out.kind = "return" /\ Hashable(call.args))
    => out.val = firstRet[call.fn][HashKey(call.args)]

====
